---- MODULE Spec2Model ----
(***************************************************************************)
(* Model of the MCSManager launcher (app/server/luncher.mjs): a supervisor *)
(* that spawns a web and a daemon child, relays their output to a log,     *)
(* forwards termination signals and contains the unexpected exit of one    *)
(* child by killing the other.  Every event-loop callback of the file is   *)
(* one action; the callbacks are translated statement by statement as      *)
(* operators over a record holding the supervisor's state.                 *)
(***************************************************************************)
EXTENDS Integers, Sequences, FiniteSets, TLC

\* ------------------------------------------------------------------ bounds
MaxSignals == 2      \* termination signals delivered in one run
MaxData    == 3      \* data chunks delivered in one run of the relay

\* ------------------------------------------------------- program constants
GraceMs   == 5000    \* delay of the forced-exit timer of shutdown()
ContainMs == 1000    \* delay of the exit timer of the containment path

Children == {"web", "daemon"}
Signals  == {"SIGINT", "SIGTERM", "SIGHUP"}

Other(c) == IF c = "web" THEN "daemon" ELSE "web"

\* Log tag of a child's stdout and stderr relay.
StdoutTag(c) == IF c = "web" THEN "[Web]" ELSE "[Daemon]"
StderrTag(c) == IF c = "web" THEN "[Web ERROR]" ELSE "[Daemon ERROR]"

\* What child.kill(signal) can do: deliver the signal and set child.killed
\* ("ok"), return false because the process is already gone ("gone"), or
\* throw ("throw").  Once the exit event has been dispatched the child has no
\* handle left and kill() only returns false.
KillOutcomes(hasExited) ==
  IF hasExited THEN {"gone"} ELSE {"ok", "gone", "throw"}

\* Characters of a data chunk, and the chunks a child may write.
Blank == {" ", "\n"}
Chunks == { <<" ", "b">>, <<"a", "\n", "b", "\n">> }

RECURSIVE TrimLeft(_)
TrimLeft(t) ==
  IF t = <<>> THEN <<>>
  ELSE IF Head(t) \in Blank THEN TrimLeft(Tail(t)) ELSE t

RECURSIVE TrimRight(_)
TrimRight(t) ==
  IF t = <<>> THEN <<>>
  ELSE IF t[Len(t)] \in Blank THEN TrimRight(SubSeq(t, 1, Len(t) - 1)) ELSE t

\* String.prototype.trim
Trim(t) == TrimRight(TrimLeft(t))

\* `${code}` of a process exit code
CodeStr(n) == IF n = 0 THEN "0" ELSE "1"

Range(f) == { f[i] : i \in DOMAIN f }

VARIABLES
  isShuttingDown,  \* the shutdown flag
  killed,          \* killed[c]: ChildProcess.killed of child c
  exited,          \* exited[c]: the exit event of c has been dispatched
  errored,         \* errored[c]: the error event of c has been dispatched
  timers,          \* timers armed with setTimeout, in arming order
  fired,           \* positions in timers of the timers whose callback has run
  now,             \* the clock, in ms
  logFile,         \* lines written to logStream (and the console) before end()
  ended,           \* number of logStream.end() calls so far
  lateWrites,      \* number of logStream.write() calls made after end()
  sent,            \* kill() calls made on the children, in order
  emitted,         \* emitted[c]: stdout chunks of child c and when they came
  exitCode,        \* {} while the supervisor runs, {code} once it exited
  exitAt,          \* clock value at which the supervisor exited
  uncaught,        \* an exception escaped a callback
  nsig, ndata      \* events delivered so far: signals, data chunks

vars == << isShuttingDown, killed, exited, errored, timers, fired, now, logFile,
           ended, lateWrites, sent, emitted, exitCode, exitAt, uncaught,
           nsig, ndata >>

Terminated == exitCode # {}

\* The (code, signal) an 'exit' event of child c may carry: a child that was
\* signalled dies of that signal or handles it and exits cleanly, a child
\* that was not exits on its own, cleanly or with a failure code.
ExitPayloads(c) ==
  IF killed[c]
  THEN LET ok   == { i \in DOMAIN sent : sent[i].to = c /\ sent[i].res = "ok" }
           last == CHOOSE i \in ok : \A j \in ok : j <= i
       IN { [code |-> "null", signal |-> sent[last].sig],
            [code |-> "0", signal |-> "null"] }
  ELSE { [code |-> "0", signal |-> "null"], [code |-> "1", signal |-> "null"] }

\* ------------------------------------------------- the supervisor's state
\* The state a callback reads and writes, as one record.
Cur ==
  [ flag |-> isShuttingDown, killed |-> killed, timers |-> timers,
    file |-> logFile, ended |-> ended,
    late |-> lateWrites, sent |-> sent, exit |-> exitCode,
    thrown |-> FALSE, uncaught |-> uncaught ]

\* Sequencing of statements: F runs on the state x that the statements
\* before it left behind.
Then(x, F(_)) == CHOOSE r \in { F(v) : v \in {x} } : TRUE

Entry(err, text, who, sig, code, body) ==
  [ ts |-> now, err |-> err, text |-> text, who |-> who, sig |-> sig,
    code |-> code, body |-> body ]

\* logStream.write(line): after end() the line does not reach the file; the
\* write is counted as a write after end.
StreamWrite(s, e) ==
  IF s.ended > 0 THEN [s EXCEPT !.late = @ + 1]
  ELSE [s EXCEPT !.file = Append(@, e)]

\* logStream.end()
StreamEnd(s) ==
  IF s.thrown THEN s ELSE [s EXCEPT !.ended = @ + 1]

\* log(message)
Log(s, text, who, sig, code, body) ==
  IF s.thrown THEN s
  ELSE StreamWrite(s, Entry(FALSE, text, who, sig, code, body))

\* logError(message)
LogError(s, text, who, sig, code, body) ==
  IF s.thrown THEN s
  ELSE StreamWrite(s, Entry(TRUE, text, who, sig, code, body))

\* Variant of OnError: the error is treated as a termination trigger.
OnError_SetsFlag(s, c) ==
  [LogError(s, "process error", c, "", "", <<>>) EXCEPT !.flag = TRUE]

\* child.on('error'): logError(`<child> process error: ${err.message}`)
OnError(s, c) == LogError(s, "process error", c, "", "", <<>>)

\* child.kill(sig) with outcome r; the call is recorded with the value the
\* shutdown flag has when it is made.
Kill(s, c, sig, r) ==
  IF s.thrown THEN s
  ELSE LET s1 == [s EXCEPT !.sent = Append(@, [to |-> c, sig |-> sig, res |-> r,
                                               flag |-> s.flag])]
       IN CASE r = "ok"    -> [s1 EXCEPT !.killed[c] = TRUE]
            [] r = "throw" -> [s1 EXCEPT !.thrown = TRUE]
            [] OTHER       -> s1

\* Variant of Catch: the exception is not caught.
Catch_Rethrow(s, c) == s

\* catch (err) { logError(`failed to close <child>: ${err.message}`) }
Catch(s, c) ==
  IF s.thrown
  THEN LogError([s EXCEPT !.thrown = FALSE], "kill failed", c, "", "", <<>>)
  ELSE s

\* setTimeout(cb, delay)
SetTimeout(s, cb, delay) ==
  IF s.thrown THEN s
  ELSE [s EXCEPT !.timers = Append(@, [cb |-> cb, delay |-> delay,
                                       deadline |-> now + delay])]

\* process.on('exit', code => { log(...); logStream.end() })
OnProcessExit(s, code) ==
  Then(Log(s, "main exit", "", "", CodeStr(code), <<>>), LAMBDA s1 :
  StreamEnd(s1))

\* exit(code): run the 'exit' hook, then the process is gone
Exit(s, code) ==
  IF s.thrown THEN s
  ELSE Then(OnProcessExit(s, code), LAMBDA s1 : [s1 EXCEPT !.exit = {code}])

\* An exception that leaves a callback is an uncaught exception: the runtime
\* terminates the process with code 1.
Return(s) ==
  IF s.thrown THEN Exit([s EXCEPT !.thrown = FALSE, !.uncaught = TRUE], 1)
  ELSE s

\* Variant of Forward: the signal is sent whatever child.killed says.
Forward_NoKilledCheck(s, c, signal, r) ==
  Then(Log(s, "sending signal", c, signal, "", <<>>), LAMBDA s1 :
  Then(Kill(s1, c, signal, r), LAMBDA s2 :
  Catch(s2, c)))

\* try { if (child && !child.killed) { log(...); child.kill(signal) } }
\* catch (err) { logError(...) }                       (shutdown, per child)
Forward(s, c, signal, r) ==
  IF ~s.killed[c]
  THEN Then(Log(s, "sending signal", c, signal, "", <<>>), LAMBDA s1 :
       Then(Kill(s1, c, signal, r), LAMBDA s2 :
       Catch(s2, c)))
  ELSE s

\* try { if (other && !other.killed) other.kill('SIGTERM') }
\* catch (err) { logError(...) }                       (exit callbacks)
Contain(s, c, r) ==
  IF ~s.killed[c]
  THEN Then(Kill(s, c, "SIGTERM", r), LAMBDA s1 : Catch(s1, c))
  ELSE s

\* Variant of Shutdown: the `if (isShuttingDown) return` guard is missing.
Shutdown_NoGuard(s, signal, rw, rd) ==
  Then([s EXCEPT !.flag = TRUE], LAMBDA s1 :
  Then(Log(s1, "received signal", "", signal, "", <<>>), LAMBDA s2 :
  Then(Forward(s2, "web", signal, rw), LAMBDA s3 :
  Then(Forward(s3, "daemon", signal, rd), LAMBDA s4 :
  SetTimeout(s4, "shutdown", GraceMs)))))

\* Variant of Shutdown: the flag is set after the signals have been forwarded.
Shutdown_FlagLast(s, signal, rw, rd) ==
  IF s.flag THEN s
  ELSE
    Then(Log(s, "received signal", "", signal, "", <<>>), LAMBDA s2 :
    Then(Forward(s2, "web", signal, rw), LAMBDA s3 :
    Then(Forward(s3, "daemon", signal, rd), LAMBDA s4 :
    Then([s4 EXCEPT !.flag = TRUE], LAMBDA s5 :
    SetTimeout(s5, "shutdown", GraceMs)))))

\* ------------------------------------------------------------- shutdown()
Shutdown(s, signal, rw, rd) ==
  IF s.flag THEN s
  ELSE
    Then([s EXCEPT !.flag = TRUE], LAMBDA s1 :
    Then(Log(s1, "received signal", "", signal, "", <<>>), LAMBDA s2 :
    Then(Forward(s2, "web", signal, rw), LAMBDA s3 :
    Then(Forward(s3, "daemon", signal, rd), LAMBDA s4 :
    SetTimeout(s4, "shutdown", GraceMs)))))

\* Variant of OnChildExit: the sibling is not killed.
OnChildExit_NoKill(s, c, code, signal, r) ==
  IF s.flag
  THEN Log(s, "child exited", c, signal, code, <<>>)
  ELSE
    Then(LogError(s, "child exited abnormally", c, signal, code, <<>>), LAMBDA s1 :
    Then(LogError(s1, "closing sibling", c, "", "", <<>>), LAMBDA s2 :
    SetTimeout(s2, c, ContainMs)))

\* Variant of OnChildExit: the `if (isShuttingDown)` branch is missing.
OnChildExit_NoFlagCheck(s, c, code, signal, r) ==
  Then(LogError(s, "child exited abnormally", c, signal, code, <<>>), LAMBDA s1 :
  Then(LogError(s1, "closing sibling", c, "", "", <<>>), LAMBDA s2 :
  Then(Contain(s2, Other(c), r), LAMBDA s3 :
  SetTimeout(s3, c, ContainMs))))

\* Variant of OnChildExit: containment is skipped when the sibling has
\* already exited.
OnChildExit_SkipsWhenSiblingGone(s, c, code, signal, r) ==
  IF s.flag \/ exited[Other(c)]
  THEN Log(s, "child exited", c, signal, code, <<>>)
  ELSE
    Then(LogError(s, "child exited abnormally", c, signal, code, <<>>), LAMBDA s1 :
    Then(LogError(s1, "closing sibling", c, "", "", <<>>), LAMBDA s2 :
    Then(Contain(s2, Other(c), r), LAMBDA s3 :
    SetTimeout(s3, c, ContainMs))))

\* Variant of OnChildExit: a clean exit (code 0, no signal) is not contained.
OnChildExit_CleanExitIgnored(s, c, code, signal, r) ==
  IF s.flag \/ (code = "0" /\ signal = "null")
  THEN Log(s, "child exited", c, signal, code, <<>>)
  ELSE
    Then(LogError(s, "child exited abnormally", c, signal, code, <<>>), LAMBDA s1 :
    Then(LogError(s1, "closing sibling", c, "", "", <<>>), LAMBDA s2 :
    Then(Contain(s2, Other(c), r), LAMBDA s3 :
    SetTimeout(s3, c, ContainMs))))

\* Variant of OnChildExit: the handler kills its own child, not the sibling.
OnChildExit_KillsSelf(s, c, code, signal, r) ==
  IF s.flag
  THEN Log(s, "child exited", c, signal, code, <<>>)
  ELSE
    Then(LogError(s, "child exited abnormally", c, signal, code, <<>>), LAMBDA s1 :
    Then(LogError(s1, "closing sibling", c, "", "", <<>>), LAMBDA s2 :
    Then(Contain(s2, c, r), LAMBDA s3 :
    SetTimeout(s3, c, ContainMs))))

\* ------------------------------------------------ child.on('exit') handler
OnChildExit(s, c, code, signal, r) ==
  IF s.flag
  THEN Log(s, "child exited", c, signal, code, <<>>)
  ELSE
    Then(LogError(s, "child exited abnormally", c, signal, code, <<>>), LAMBDA s1 :
    Then(LogError(s1, "closing sibling", c, "", "", <<>>), LAMBDA s2 :
    Then(Contain(s2, Other(c), r), LAMBDA s3 :
    SetTimeout(s3, c, ContainMs))))

\* Variant of OnTimer: the forced exit of shutdown() reports code 1 too.
OnTimer_AlwaysExit1(s, cb) ==
  IF cb = "shutdown"
  THEN Then(Log(s, "forced exit", "", "", "", <<>>), LAMBDA s1 :
       Then(StreamEnd(s1), LAMBDA s2 :
       Exit(s2, 1)))
  ELSE Then(StreamEnd(s), LAMBDA s1 : Exit(s1, 1))

\* Variant of OnTimer: the forced exit waits until both children have exited.
OnTimer_WaitsForChildren(s, cb) ==
  IF \E c \in Children : ~exited[c] THEN s
  ELSE IF cb = "shutdown"
  THEN Then(Log(s, "forced exit", "", "", "", <<>>), LAMBDA s1 :
       Then(StreamEnd(s1), LAMBDA s2 :
       Exit(s2, 0)))
  ELSE Then(StreamEnd(s), LAMBDA s1 : Exit(s1, 1))

\* Variant of OnTimer: the containment timer reports success.
OnTimer_ContainExit0(s, cb) ==
  IF cb = "shutdown"
  THEN Then(Log(s, "forced exit", "", "", "", <<>>), LAMBDA s1 :
       Then(StreamEnd(s1), LAMBDA s2 :
       Exit(s2, 0)))
  ELSE Then(StreamEnd(s), LAMBDA s1 : Exit(s1, 0))

\* ------------------------------------------------------- timer callbacks
OnTimer(s, cb) ==
  IF cb = "shutdown"
  THEN Then(Log(s, "forced exit", "", "", "", <<>>), LAMBDA s1 :
       Then(StreamEnd(s1), LAMBDA s2 :
       Exit(s2, 0)))
  ELSE Then(StreamEnd(s), LAMBDA s1 : Exit(s1, 1))

\* Variant of OnStdout: the chunk is logged untrimmed.
OnStdout_NoTrim(s, c, data) == Log(s, StdoutTag(c), c, "", "", data)

\* ---------------------------------------------------- stream data handlers
OnStdout(s, c, data) == Log(s, StdoutTag(c), c, "", "", Trim(data))
OnStderr(s, c, data) == LogError(s, StderrTag(c), c, "", "", Trim(data))

\* ---------------------------------------------------------------- actions
\* Commit the state s0 that a callback leaves behind.
Commit(s0) ==
  \E s \in {Return(s0)} :
  /\ isShuttingDown' = s.flag
  /\ killed' = s.killed
  /\ timers' = s.timers
  /\ logFile' = s.file
  /\ ended' = s.ended
  /\ lateWrites' = s.late
  /\ sent' = s.sent
  /\ exitCode' = s.exit
  /\ exitAt' = IF s.exit # {} THEN now ELSE exitAt
  /\ uncaught' = s.uncaught

\* Startup (lines 58-81): the two log lines written after the spawns.
Started ==
  LET s0 == [ flag |-> FALSE, killed |-> [c \in Children |-> FALSE],
              timers |-> <<>>, file |-> <<>>, ended |-> 0,
              late |-> 0, sent |-> <<>>, exit |-> {}, thrown |-> FALSE,
              uncaught |-> FALSE ]
      e(text, who) == [ ts |-> 0, err |-> FALSE, text |-> text, who |-> who,
                        sig |-> "", code |-> "", body |-> <<>> ]
      l(s, x) == [s EXCEPT !.file = Append(@, x)]
  IN l(l(l(s0, e("starting", "")), e("started", "web")), e("started", "daemon"))

Init ==
  /\ isShuttingDown = Started.flag
  /\ killed = Started.killed
  /\ exited = [c \in Children |-> FALSE]
  /\ errored = [c \in Children |-> FALSE]
  /\ timers = Started.timers
  /\ fired = {}
  /\ now = 0
  /\ logFile = Started.file
  /\ ended = Started.ended
  /\ lateWrites = Started.late
  /\ sent = Started.sent
  /\ emitted = [c \in Children |-> <<>>]
  /\ exitCode = Started.exit
  /\ exitAt = 0
  /\ uncaught = Started.uncaught
  /\ nsig = 0 /\ ndata = 0

\* process.on(S, () => shutdown(S))
Signal ==
  /\ ~Terminated
  /\ nsig < MaxSignals
  /\ \E sg \in Signals :
     \E rw \in KillOutcomes(exited["web"]) :
     \E rd \in KillOutcomes(exited["daemon"]) :
       /\ \E s \in {Cur} : Commit(Shutdown(s, sg, rw, rd))
  /\ nsig' = nsig + 1
  /\ UNCHANGED << exited, errored, fired, now, emitted, ndata >>

\* child.on('exit', (code, signal) => ...)
ChildExit ==
  /\ ~Terminated
  /\ \E c \in Children :
       /\ ~exited[c]
       /\ exited' = [exited EXCEPT ![c] = TRUE]
       /\ \E p \in ExitPayloads(c) : \E r \in KillOutcomes(exited[Other(c)]) :
            \E s \in {Cur} : Commit(OnChildExit(s, c, p.code, p.signal, r))
  /\ UNCHANGED << errored, fired, now, emitted, nsig, ndata >>

\* child.on('error', err => ...): the child could not be started or run.  It
\* is reported once per child, and not after the child's exit.
ChildError ==
  /\ ~Terminated
  /\ \E c \in Children :
       /\ ~errored[c] /\ ~exited[c]
       /\ errored' = [errored EXCEPT ![c] = TRUE]
       /\ \E s \in {Cur} : Commit(OnError(s, c))
  /\ UNCHANGED << exited, fired, now, emitted, nsig, ndata >>

\* child.stdout.on('data', data => ...)
StdoutData ==
  /\ ~Terminated
  /\ ndata < MaxData
  /\ \E c \in Children : \E data \in Chunks :
       /\ \E s \in {Cur} : Commit(OnStdout(s, c, data))
       /\ emitted' = [emitted EXCEPT ![c] = Append(@, [data |-> data, at |-> now])]
  /\ ndata' = ndata + 1
  /\ UNCHANGED << exited, errored, fired, now, nsig >>

\* child.stderr.on('data', data => ...)
StderrData ==
  /\ ~Terminated
  /\ ndata < MaxData
  /\ \E c \in Children : \E data \in Chunks :
       /\ \E s \in {Cur} : Commit(OnStderr(s, c, data))
  /\ ndata' = ndata + 1
  /\ UNCHANGED << exited, errored, fired, now, emitted, nsig >>

\* The armed timers that are due first.
Due(ts) == { i \in 1..Len(ts) : \A j \in 1..Len(ts) : ts[i].deadline <= ts[j].deadline }

\* A timer callback runs: the armed timer with the earliest deadline, once
\* the clock has reached it.
FireTimer ==
  /\ ~Terminated
  /\ \E i \in Due(timers) :
       /\ timers[i].deadline <= now
       /\ \E s \in {Cur} : Commit(OnTimer(s, timers[i].cb))
       /\ fired' = fired \cup {i}
  /\ UNCHANGED << exited, errored, now, emitted, nsig, ndata >>

\* Time passes until the next armed timer is due.  The callbacks read the
\* clock only for timestamps and deadlines, so the clock is advanced from one
\* deadline to the next.
Tick ==
  /\ ~Terminated
  /\ \E i \in Due(timers) :
       /\ now < timers[i].deadline
       /\ now' = timers[i].deadline
  /\ UNCHANGED << isShuttingDown, killed, exited, errored, timers, fired, logFile,
                  ended, lateWrites, sent, emitted, exitCode, exitAt,
                  uncaught, nsig, ndata >>

\* The supervision protocol: signals, child exits and errors, timers.
Next ==
  \/ Signal
  \/ ChildExit
  \/ ChildError
  \/ FireTimer
  \/ Tick

Spec == Init /\ [][Next]_vars

\* The output relay: data chunks of both children while one signal-triggered
\* shutdown, whose kills succeed, runs its course.
RelaySignal == Signal /\ nsig = 0 /\ \A k \in Range(sent') : k.res = "ok"

RelayNext ==
  \/ StdoutData
  \/ StderrData
  \/ RelaySignal
  \/ FireTimer
  \/ Tick

RelaySpec == Init /\ [][RelayNext]_vars

\* The event loop runs a due timer's callback and the clock advances.
FairSpec == Spec /\ WF_vars(FireTimer) /\ WF_vars(Tick)

\* ------------------------------------------------------------ vocabulary
\* What a step is: the callback that ran, told from the state it changed.
SignalStep    == nsig' = nsig + 1
ExitStep(c)   == ~exited[c] /\ exited'[c]
ErrorStep     == \E c \in Children : ~errored[c] /\ errored'[c]
StdoutStep(c) == Len(emitted'[c]) = Len(emitted[c]) + 1

\* The kill() calls and the log lines a step added.
NewSent == SubSeq(sent', Len(sent) + 1, Len(sent'))
NewLog  == SubSeq(logFile', Len(logFile) + 1, Len(logFile'))

\* kill(sg) was called on child c
WasSent(c, sg) == \E k \in Range(sent) : k.to = c /\ k.sig = sg

\* Lines `received signal S` of the log: the signals shutdown() acted on.
Received == { e \in Range(logFile) : e.text = "received signal" }

\* Timers armed by shutdown() and by the containment path.
GraceTimers   == { t \in Range(timers) : t.cb = "shutdown" }
ContainTimers == { t \in Range(timers) : t.cb \in Children }

\* ---------------------------------------------------------------------- C1
\* C1 as stated: whenever a termination signal S has been received exactly
\* once, both children have been sent S, and the supervisor, once it has
\* terminated, has terminated with exit code 0.
C1_SignalAlwaysForwardedExit0 ==
  \A e \in Received :
    nsig = 1 =>
      /\ \A c \in Children : WasSent(c, e.sig)
      /\ Terminated => exitCode = {0}

\* The first shutdown sequence of the run was started by a signal: no child
\* exit had been handled before it.
SignalFirst == timers # <<>> /\ timers[1].cb = "shutdown"

C1_Safe ==
  \A e \in Received :
    SignalFirst =>
      /\ \A c \in Children : WasSent(c, e.sig)
      /\ ~Terminated => now <= e.ts + GraceMs
      /\ Terminated => exitCode = {0} /\ exitAt = e.ts + GraceMs

\* C1 (amended): if a termination signal S is received while no child exit
\* has been handled yet, kill(S) is called on both children and the
\* supervisor terminates with exit code 0 when the timer armed 5000 ms after
\* S fires, however child exits and errors interleave after S.
C1_SignalFirstForwardsAndExits0 ==
  /\ [] C1_Safe
  /\ SignalFirst ~> (Terminated /\ exitCode = {0})

C1_Witness ==
  /\ SignalFirst /\ nsig = 1
  /\ Terminated /\ exitCode = {0} /\ exitAt = GraceMs
  /\ \E c \in Children : exited[c]
  /\ \A c \in Children : \E sg \in Signals : WasSent(c, sg)

\* ---------------------------------------------------------------------- C2
\* The exit callback of child c, run with the flag unset, calls
\* kill('SIGTERM') on the other child and arms a 1000 ms timer.
C2_Step ==
  \A c \in Children :
    (ExitStep(c) /\ ~isShuttingDown) =>
      /\ Len(NewSent) = 1
      /\ NewSent[1].to = Other(c) /\ NewSent[1].sig = "SIGTERM"
      /\ timers' = Append(timers, [cb |-> c, delay |-> ContainMs,
                                   deadline |-> now + ContainMs])

\* While a containment timer is armed the supervisor has not outlived its
\* deadline, and once terminated it has exited with code 1 by that deadline.
C2_Safe ==
  \A t \in ContainTimers :
    /\ ~Terminated => now <= t.deadline
    /\ Terminated => exitCode = {1} /\ exitAt <= t.deadline

\* C2: a child exit handled with the flag unset sends SIGTERM to the other
\* child and arms a 1000 ms timer in the same callback, and the supervisor
\* then terminates with exit code 1 no later than that timer's deadline.
C2_ContainmentExits1 ==
  /\ [][C2_Step]_vars
  /\ [] C2_Safe
  /\ (ContainTimers # {}) ~> (Terminated /\ exitCode = {1})

C2_Witness ==
  /\ Terminated /\ exitCode = {1}
  /\ ContainTimers # {} /\ GraceTimers # {}
  /\ \E k \in Range(sent) : k.sig = "SIGTERM" /\ k.res = "ok"
  /\ \E c \in Children : errored[c]

\* ---------------------------------------------------------------------- C3
\* C3: an exit callback run with the flag already set only writes the line
\* `child exited`: no kill, no timer, flag and killed flags unchanged.
C3_ExpectedExitOnlyLogs ==
  [][\A c \in Children :
       (ExitStep(c) /\ isShuttingDown) =>
         /\ UNCHANGED << sent, timers, isShuttingDown, killed, exitCode,
                         ended, uncaught >>
         /\ Len(NewLog) = 1
         /\ NewLog[1].text = "child exited" /\ NewLog[1].who = c
         /\ ~NewLog[1].err]_vars

C3_Witness ==
  /\ isShuttingDown
  /\ \E c \in Children :
       /\ exited[c]
       /\ \E e \in Range(logFile) : e.text = "child exited" /\ e.who = c

\* ---------------------------------------------------------------------- C4
\* C4: a termination signal handled after the first one changes nothing:
\* no kill, no timer armed or re-armed, the flag stays set.
C4_SecondSignalIsNoOp ==
  [][(SignalStep /\ nsig >= 1) =>
       /\ isShuttingDown /\ isShuttingDown'
       /\ UNCHANGED << sent, timers, killed, logFile, exitCode >>]_vars

C4_Witness ==
  /\ nsig = MaxSignals
  /\ ~Terminated
  /\ Len(timers) = 1
  /\ Len(sent) = 2

\* ---------------------------------------------------------------------- C5
\* C5 as stated: at most one sequence `kill the children, arm a forced-exit
\* timer` is ever started.  Every such sequence arms exactly one timer and no
\* timer is ever cancelled, so the armed timers count the sequences.
C5_OneShutdownSequence == Len(timers) <= 1

\* ---------------------------------------------------------------------- C6
\* C6 as stated: once a first termination trigger (a signal, or a child exit
\* found with the flag unset) has been handled, the shutdown flag is set.
C6_FlagSetAfterFirstTrigger ==
  (nsig > 0 \/ \E c \in Children : exited[c]) => isShuttingDown

\* ---------------------------------------------------------------------- C7
\* C7 as stated: nothing is written to the log stream after end() has been
\* called on it, and no callback ends in an uncaught error.
C7_NoWriteAfterEnd == lateWrites = 0 /\ ~uncaught

\* ---------------------------------------------------------------------- C8
\* The lines of a chunk: its text split at the newlines.
RECURSIVE Lines(_, _)
Lines(t, cur) ==
  IF t = <<>> THEN (IF cur = <<>> THEN <<>> ELSE << cur >>)
  ELSE IF Head(t) = "\n" THEN << cur >> \o Lines(Tail(t), <<>>)
  ELSE Lines(Tail(t), Append(cur, Head(t)))

\* The log entries that relay the stdout of child c, in log order.
Relayed(c) == SelectSeq(logFile, LAMBDA e : e.text = StdoutTag(c) /\ ~e.err)

\* C8 as stated: every stdout line of a child is the text of a log entry of
\* its own carrying that child's tag.
C8_EveryLineOwnEntry ==
  \A c \in Children : \A m \in Range(emitted[c]) :
    \A line \in Range(Lines(m.data, <<>>)) :
      \E e \in Range(Relayed(c)) : e.body = Trim(line)

\* C8 (amended): every stdout chunk of a child is logged as one entry with
\* the timestamp of its arrival and the child's tag, holding the whole chunk
\* with leading and trailing whitespace removed (so the lines of a multi-line
\* chunk share one entry), and each child's entries keep the order in which
\* its chunks arrived.
C8_EveryChunkOneEntry ==
  \A c \in Children :
    /\ Len(Relayed(c)) = Len(emitted[c])
    /\ \A i \in DOMAIN emitted[c] :
         /\ Relayed(c)[i].body = Trim(emitted[c][i].data)
         /\ Relayed(c)[i].ts = emitted[c][i].at
         /\ Relayed(c)[i].who = c

C8_Witness ==
  /\ \A c \in Children : emitted[c] # <<>>
  /\ \E c \in Children : \E m \in Range(emitted[c]) :
       Len(Lines(m.data, <<>>)) > 1
  /\ isShuttingDown

\* ---------------------------------------------------------------------- C9
Threw(c) == \E k \in Range(NewSent) : k.to = c /\ k.res = "throw"
Tried(c) == \E k \in Range(NewSent) : k.to = c
LoggedFailure(c) ==
  \E e \in Range(NewLog) : e.err /\ e.text = "kill failed" /\ e.who = c
Armed(cb, delay) ==
  timers' = Append(timers, [cb |-> cb, delay |-> delay, deadline |-> now + delay])

\* C9: a kill() that throws is logged and stops nothing: shutdown() still
\* signals the daemon after a failed kill of web and still arms the 5000 ms
\* timer, the exit callback still arms the 1000 ms timer, and no exception
\* leaves the callback.
C9_KillFailuresContained ==
  [][/\ (SignalStep /\ ~isShuttingDown) =>
          /\ Threw("web") => LoggedFailure("web")
          /\ Threw("web") /\ ~killed["daemon"] => Tried("daemon")
          /\ Threw("daemon") => LoggedFailure("daemon")
          /\ Armed("shutdown", GraceMs)
          /\ ~uncaught' /\ exitCode' = {}
     /\ \A c \in Children :
          (ExitStep(c) /\ ~isShuttingDown) =>
            /\ Threw(Other(c)) => LoggedFailure(Other(c))
            /\ Armed(c, ContainMs)
            /\ ~uncaught' /\ exitCode' = {}]_vars

C9_Witness ==
  /\ ~uncaught /\ ~Terminated
  /\ GraceTimers # {} /\ ContainTimers # {}
  /\ \E i, j, k \in DOMAIN sent :
       /\ i < j /\ j < k
       /\ sent[i].to = "web" /\ sent[i].sig = "SIGTERM" /\ sent[i].res = "throw"
       /\ sent[j].to = "web" /\ sent[j].sig = "SIGHUP" /\ sent[j].res = "throw"
       /\ sent[k].to = "daemon" /\ sent[k].sig = "SIGHUP"
  /\ Cardinality({ e \in Range(logFile) : e.text = "kill failed" /\ e.who = "web" }) = 2

\* --------------------------------------------------------------------- C10
\* C10: a child 'error' event is only logged: the flag, the killed flags, the
\* timers, the signals sent and the supervisor's liveness are untouched.
C10_ErrorOnlyLogged ==
  [][ErrorStep =>
       /\ UNCHANGED << isShuttingDown, killed, timers, sent, exitCode, ended,
                       exited, uncaught >>
       /\ Len(NewLog) = 1
       /\ NewLog[1].err /\ NewLog[1].text = "process error"]_vars

C10_Witness ==
  /\ \E c \in Children : errored[c]
  /\ ~isShuttingDown /\ timers = <<>> /\ sent = <<>> /\ ~Terminated
  /\ \E e \in Range(logFile) : e.text = "process error"

\* --------------------------------------------------------------------- C11
\* C11 as stated: an armed timer always runs its callback.  Nothing runs once
\* the supervisor has terminated, so by then every armed timer has fired,
\* also when another timer with an earlier deadline was armed.
C11_ArmedTimerAlwaysFires ==
  Terminated => \A i \in DOMAIN timers : i \in fired

\* --------------------------------------------------------------------- C12
\* The kill() calls of a step made on child c, and the positions in the log
\* lines of a step of the lines with a given text about a given child.
CallsTo(c) == SelectSeq(NewSent, LAMBDA k : k.to = c)
LinesAt(text, who) ==
  { i \in DOMAIN NewLog : NewLog[i].text = text /\ NewLog[i].who = who }

\* One run of shutdown(S) that passes the guard: the flag is set before any
\* kill() is called, the line `received signal S` comes first, web is
\* attempted (or skipped because it is reported killed) before daemon, every
\* attempt carries S, and the 5000 ms timer is armed by the same callback.
C12_Step ==
  (SignalStep /\ ~isShuttingDown) =>
    /\ isShuttingDown'
    /\ NewLog # <<>> /\ NewLog[1].text = "received signal"
    /\ \A k \in Range(NewSent) : k.flag /\ k.sig = NewLog[1].sig
    /\ \A c \in Children :
         /\ Len(CallsTo(c)) = (IF killed[c] THEN 0 ELSE 1)
         /\ LinesAt("sending signal", c) # {} <=> ~killed[c]
    /\ \A i, j \in DOMAIN NewSent :
         (NewSent[i].to = "web" /\ NewSent[j].to = "daemon") => i < j
    /\ \A i \in LinesAt("sending signal", "web") :
       \A j \in LinesAt("sending signal", "daemon") : 1 < i /\ i < j
    /\ Armed("shutdown", GraceMs)
    /\ fired' = fired /\ exitCode' = {}

\* An armed 5000 ms timer means that shutdown() has dealt with both children:
\* each was sent the received signal or was reported killed before it.
C12_Attempted ==
  \A i \in DOMAIN timers : timers[i].cb = "shutdown" =>
    /\ isShuttingDown
    /\ \E e \in Received :
         \A c \in Children :
           \/ \E k \in Range(sent) : k.to = c /\ k.sig = e.sig /\ k.flag
           \/ \E k \in Range(sent) : k.to = c /\ k.res = "ok" /\ ~k.flag

\* C12: in a signal-triggered shutdown the flag is set first, then the signal
\* is sent to (or skipped for) web, then daemon, and only then the timer is
\* armed; the timer is never armed, and the supervisor never terminates by
\* it, before both attempts have been made.
C12_ShutdownStepOrder ==
  /\ [][C12_Step]_vars
  /\ [] C12_Attempted
  /\ [] (exitCode = {0} => \E i \in fired : timers[i].cb = "shutdown")

C12_Witness ==
  /\ Terminated /\ exitCode = {0}
  /\ \E i \in fired : timers[i].cb = "shutdown"
  /\ Len(sent) = 2
  /\ sent[1].to = "web" /\ sent[1].res = "throw" /\ sent[1].flag
  /\ sent[2].to = "daemon" /\ sent[2].res = "ok" /\ sent[2].flag

\* --------------------------------------------------------------------- C13
\* A termination trigger has been handled: a signal, or a child exit (the
\* first exit handled without a signal before it finds the flag unset).
Triggered == nsig > 0 \/ \E c \in Children : exited[c]

\* Every handled trigger leaves a forced-exit timer armed, and the supervisor
\* never outlives the deadline of an armed timer.
C13_Window ==
  /\ Triggered => timers # <<>>
  /\ \A t \in Range(timers) :
       /\ ~Terminated => now <= t.deadline
       /\ Terminated => exitAt <= t.deadline

\* C13: once a termination trigger has been handled the supervisor terminates,
\* within the window of the armed timer, whether or not the children ever
\* exit and whatever the kill() calls did.
C13_BoundedShutdown ==
  /\ [] C13_Window
  /\ Triggered ~> Terminated

C13_Witness ==
  /\ Terminated
  /\ \A c \in Children : ~exited[c]
  /\ Len(sent) = 2
  /\ \A k \in Range(sent) : k.res # "ok"
  /\ \A c \in Children : ~killed[c]

\* --------------------------------------------------------------------- C14
\* shutdown(S) calls kill(S) on exactly the children whose killed flag is
\* false when it runs.
C14_Step ==
  (SignalStep /\ ~isShuttingDown) =>
    /\ \A c \in Children : Tried(c) <=> ~killed[c]
    /\ \A k \in Range(NewSent) : \E e \in Range(NewLog) :
         e.text = "received signal" /\ k.sig = e.sig

\* The kill() calls on child c that delivered their signal.
Delivered(c) == { i \in DOMAIN sent : sent[i].to = c /\ sent[i].res = "ok" }

\* C14: a signal-triggered shutdown sends S to exactly the children not yet
\* reported killed, so a child killed by an earlier containment SIGTERM is
\* sent nothing, and no child is signalled successfully more than once.
C14_ForwardOnlyToUnkilled ==
  /\ [][C14_Step]_vars
  /\ [] (\A c \in Children :
           /\ Cardinality(Delivered(c)) <= 1
           /\ killed[c] <=> Delivered(c) # {})

C14_Witness ==
  /\ isShuttingDown /\ exited["web"] /\ killed["daemon"]
  /\ Len(sent) = 2
  /\ sent[1] = [to |-> "daemon", sig |-> "SIGTERM", res |-> "ok", flag |-> FALSE]
  /\ sent[2] = [to |-> "web", sig |-> "SIGHUP", res |-> "gone", flag |-> TRUE]
  /\ \E e \in Received : e.sig = "SIGHUP"

\* --------------------------------------------------------------------- C15
\* The second exit of the race: the exit callback of c runs with the flag
\* unset after the sibling's exit has been handled.  It logs the error, calls
\* kill('SIGTERM') on the sibling, which is gone, and arms its own timer.
C15_Step ==
  \A c \in Children :
    (ExitStep(c) /\ ~isShuttingDown /\ exited[Other(c)]) =>
      /\ \E e \in Range(NewLog) :
           e.err /\ e.text = "child exited abnormally" /\ e.who = c
      /\ NewSent = << [to |-> Other(c), sig |-> "SIGTERM", res |-> "gone",
                       flag |-> FALSE] >>
      /\ Armed(c, ContainMs)
      /\ ~uncaught' /\ exitCode' = {}

\* Both exit callbacks ran containment: each armed its timer.
BothContained == \A c \in Children : \E t \in Range(timers) : t.cb = c

\* After the race two containment timers are armed and each child has been
\* sent a SIGTERM; the supervisor terminates once, with code 1, by the
\* callback of a timer with the earliest deadline, and nothing was thrown.
C15_Safe ==
  BothContained =>
    /\ Len(SelectSeq(timers, LAMBDA t : t.cb \in Children)) = 2
    /\ \A c \in Children :
         \E k \in Range(sent) : k.to = c /\ k.sig = "SIGTERM" /\ ~k.flag
    /\ ~uncaught
    /\ ~Terminated => fired = {}
    /\ Terminated =>
         /\ exitCode = {1}
         /\ \E i \in DOMAIN timers :
              /\ fired = {i}
              /\ timers[i].cb \in Children
              /\ exitAt = timers[i].deadline
              /\ \A j \in DOMAIN timers : timers[i].deadline <= timers[j].deadline

\* C15: when both children's exits are handled with the flag unset, each
\* exit callback runs containment on its own (error logged, SIGTERM attempted
\* on the sibling, 1000 ms timer armed), and the supervisor terminates exactly
\* once, with exit code 1, when the earlier timer fires.
C15_DoubleExitRace ==
  /\ [][C15_Step]_vars
  /\ [] C15_Safe
  /\ BothContained ~> (Terminated /\ exitCode = {1})

C15_Witness ==
  /\ BothContained /\ Terminated /\ exitCode = {1}
  /\ Len(timers) = 2 /\ fired = {1}
  /\ timers[1].deadline < timers[2].deadline
  /\ Len(sent) = 2 /\ sent[1].res = "throw" /\ sent[2].res = "gone"
  /\ nsig = 0

\* --------------------------------------------------------------------- C16
\* An exit callback contains (SIGTERM to the sibling, 1000 ms timer) exactly
\* when it finds the flag unset, whatever code and signal the event carries;
\* the event's code and signal only appear in the line it logs.
C16_Step ==
  \A c \in Children :
    ExitStep(c) =>
      /\ (Tried(Other(c)) /\ Armed(c, ContainMs)) <=> ~isShuttingDown
      /\ (NewSent = <<>> /\ timers' = timers) <=> isShuttingDown
      /\ NewLog # <<>> /\ NewLog[1].who = c
      /\ NewLog[1].err <=> ~isShuttingDown

\* A child exited cleanly (code 0, no signal) and was found with the flag
\* unset.
CleanUnexpected ==
  \E e \in Range(logFile) :
    e.text = "child exited abnormally" /\ e.code = "0" /\ e.sig = "null"

\* C16: containment is decided by the shutdown flag alone: also a child that
\* exits with code 0 and no signal while the flag is unset gets its sibling
\* sent SIGTERM and makes the supervisor exit with code 1.
C16_ContainmentIgnoresExitStatus ==
  /\ [][C16_Step]_vars
  /\ [] (CleanUnexpected =>
           /\ \E k \in Range(sent) : k.sig = "SIGTERM" /\ ~k.flag
           /\ ContainTimers # {}
           /\ Terminated => exitCode = {1})
  /\ CleanUnexpected ~> (Terminated /\ exitCode = {1})

C16_Witness ==
  /\ CleanUnexpected /\ Terminated /\ exitCode = {1}
  /\ nsig = 0 /\ Len(timers) = 1
  /\ \E c \in Children :
       /\ exited[c] /\ ~exited[Other(c)] /\ killed[Other(c)]
       /\ sent = << [to |-> Other(c), sig |-> "SIGTERM", res |-> "ok",
                     flag |-> FALSE] >>

\* --------------------------------------------------------------------- C17
\* Some child exit was handled while the flag was unset.
UnexpectedExit ==
  \E e \in Range(logFile) : e.err /\ e.text = "child exited abnormally"

\* C17: the supervisor terminates with exit code 1 exactly when some child
\* exit was handled with the flag unset, with 0 otherwise, and with no other
\* code; a signal received after an unexpected exit leaves the code at 1.
C17_ExitCodeCharacterisation ==
  Terminated =>
    /\ exitCode \in {{0}, {1}}
    /\ exitCode = {1} <=> UnexpectedExit
    /\ exitCode = {0} <=> (Received # {} /\ ~UnexpectedExit)

C17_Witness ==
  /\ Terminated /\ exitCode = {1} /\ exitAt = ContainMs
  /\ UnexpectedExit /\ Received # {} /\ isShuttingDown
  /\ Len(timers) = 2 /\ fired = {1}
  /\ timers[1].cb \in Children /\ timers[2].cb = "shutdown"
  /\ timers[2].deadline = ContainMs + GraceMs

\* --------------------------------------------------------------------- C18
\* While the flag is unset, a child is reported killed only by the exit
\* callback of its sibling, so the sibling has exited.
C18_KilledOnlyBySibling ==
  ~isShuttingDown => \A c \in Children : killed[c] => exited[Other(c)]

\* C18: an exit callback that runs with the flag unset finds the sibling's
\* killed flag false, so the `!killed` guard lets the containment kill
\* through: kill('SIGTERM') is called on the sibling.
C18_ContainmentKillNeverSkipped ==
  /\ [] C18_KilledOnlyBySibling
  /\ [][\A c \in Children :
          (ExitStep(c) /\ ~isShuttingDown) =>
            /\ ~killed[Other(c)]
            /\ Len(CallsTo(Other(c))) = 1
            /\ CallsTo(Other(c))[1].sig = "SIGTERM"
            /\ CallsTo(c) = <<>>]_vars

C18_Witness ==
  /\ ~isShuttingDown /\ ~Terminated
  /\ \A c \in Children : exited[c]
  /\ Len(sent) = 2
  /\ sent[1].res = "ok" /\ killed[sent[1].to]
  /\ sent[2].to = Other(sent[1].to) /\ sent[2].sig = "SIGTERM"

====
